---- MODULE Spec2Model ----
(***************************************************************************)
(* rssg: a static site generator.  main() initialises the template engine, *)
(* loads the configuration and calls generate_site, which turns every      *)
(* regular file of the content directory into <stem>.html and then writes  *)
(* index.html through generate_home_page.                                  *)
(*                                                                         *)
(* File names are sequences of their dot-separated components              *)
(* ("a.b.md" is <<"a","b","md">>, the empty name "" is <<>>); the text of  *)
(* a file is a sequence of rendered chunks, so that truncating and         *)
(* appending are visible.                                                  *)
(***************************************************************************)
EXTENDS Integers, Sequences, FiniteSets, TLC

(* ------------------------------ bounds --------------------------------- *)
MaxFiles == 2   \* entries in the content directory
MaxRuns == 2    \* consecutive runs of the program

(* --------------------------- std::path::Path --------------------------- *)
\* Path::file_stem: the whole name when it has no embedded '.', or begins
\* with '.' and has no other '.'; otherwise the part before the final '.'.
file_stem(name) ==
    IF Len(name) <= 1 THEN name
    ELSE IF Len(name) = 2 /\ name[1] = "" THEN name
    ELSE SubSeq(name, 1, Len(name) - 1)

\* Path::with_extension: the stem of the path followed by the new extension.
with_extension(name, ext) == file_stem(name) \o <<ext>>

\* main.rs 86-92: the name of the page written for a content file.
output_file_name(file_path) == with_extension(file_stem(file_path), "html")

IndexHtml == <<"index", "html">>

(* ------------------------------ front matter --------------------------- *)
\* PageInfo, in declaration order, with the YAML shape serde expects.
ScalarFields == {"title", "description", "date", "path"}
SeqFields == {"tags", "similar_posts", "favorite_numbers"}
Expected(f) == IF f \in ScalarFields THEN "scalar" ELSE "seq"

Absent == [kind |-> "absent", val |-> <<>>]

\* What a front-matter block may carry under each key: nothing, a scalar
\* (val[1]) or a sequence (val).
TitleEntries == {Absent, [kind |-> "scalar", val |-> <<"Hello">>],
                 [kind |-> "seq", val |-> <<"Hello", "World">>]}
DescriptionEntries == {Absent, [kind |-> "scalar", val |-> <<"about">>],
                       [kind |-> "seq", val |-> <<"about", "it">>]}
TagsEntries == {Absent, [kind |-> "scalar", val |-> <<"rust">>],
                [kind |-> "seq", val |-> <<"rust", "ssg">>]}
SimilarEntries == {Absent, [kind |-> "scalar", val |-> <<"other">>],
                   [kind |-> "seq", val |-> <<"other">>]}
DateEntries == {Absent, [kind |-> "scalar", val |-> <<"2024-01-01">>],
                [kind |-> "seq", val |-> <<"2024", "01">>]}
NumberEntries == {Absent, [kind |-> "scalar", val |-> <<7>>],
                  [kind |-> "seq", val |-> <<3, 14>>]}
PathEntries == {Absent, [kind |-> "scalar", val |-> << <<"custom", "html">> >>],
                [kind |-> "seq", val |-> << <<"x">>, <<"y">> >>]}

AllMeta ==
    [title : TitleEntries, description : DescriptionEntries,
     tags : TagsEntries, similar_posts : SimilarEntries, date : DateEntries,
     favorite_numbers : NumberEntries, path : PathEntries]

Pick(S, k) == CHOOSE e \in S : e.kind = k

NoMeta ==
    [title |-> Absent, description |-> Absent, tags |-> Absent,
     similar_posts |-> Absent, date |-> Absent, favorite_numbers |-> Absent,
     path |-> Absent]

GoodMeta ==
    [title |-> Pick(TitleEntries, "scalar"),
     description |-> Pick(DescriptionEntries, "scalar"),
     tags |-> Pick(TagsEntries, "seq"),
     similar_posts |-> Pick(SimilarEntries, "seq"),
     date |-> Pick(DateEntries, "scalar"),
     favorite_numbers |-> Pick(NumberEntries, "seq"),
     path |-> Pick(PathEntries, "scalar")]

Body == "# Hello, World!"

\* The text of a content file: an optional front-matter block and the body.
AllContents ==
    {[fm |-> TRUE, meta |-> m, body |-> Body] : m \in AllMeta}
        \cup {[fm |-> FALSE, meta |-> NoMeta, body |-> Body]}

GoodContent == [fm |-> TRUE, meta |-> GoodMeta, body |-> Body]

\* A few representative files for the runs over several files.
SomeContents ==
    {GoodContent,
     [GoodContent EXCEPT !.meta.title.val = <<"Second">>],
     [GoodContent EXCEPT !.meta.title = Absent]}

Ok(v) == [tag |-> "Ok", val |-> <<v>>]
Err(e) == [tag |-> "Err", val |-> <<>>]

\* YamlFrontMatter::parse::<PageInfo>: the block must exist and every field
\* of PageInfo (none has a serde default) must be present with its shape.
yaml_parse(content) ==
    IF /\ content.fm
       /\ \A f \in DOMAIN content.meta : content.meta[f].kind = Expected(f)
    THEN Ok([title |-> content.meta.title.val[1],
             description |-> content.meta.description.val[1],
             tags |-> content.meta.tags.val,
             similar_posts |-> content.meta.similar_posts.val,
             date |-> content.meta.date.val[1],
             favorite_numbers |-> content.meta.favorite_numbers.val,
             path |-> content.meta.path.val[1]])
    ELSE Err("parse")

\* a lenient variant: a field that is absent takes a default value
yaml_default(f) == IF f \in ScalarFields THEN <<"">> ELSE <<>>

collect_metadata_lenient(content) ==
    IF /\ content.fm
       /\ \A f \in DOMAIN content.meta :
            content.meta[f].kind \in {Expected(f), "absent"}
    THEN LET v(f) == IF content.meta[f].kind = "absent"
                     THEN yaml_default(f) ELSE content.meta[f].val
         IN Ok([title |-> v("title")[1], description |-> v("description")[1],
                tags |-> v("tags"), similar_posts |-> v("similar_posts"),
                date |-> v("date")[1],
                favorite_numbers |-> v("favorite_numbers"), path |-> <<>>])
    ELSE Err("parse")

\* main.rs 116-138
collect_metadata(content) ==
    LET result == yaml_parse(content)
    IN IF result.tag = "Ok"
       THEN LET data == result.val[1]
            IN Ok([title |-> data.title, description |-> data.description,
                   tags |-> data.tags, similar_posts |-> data.similar_posts,
                   date |-> data.date,
                   favorite_numbers |-> data.favorite_numbers,
                   path |-> <<>>])
       ELSE Err("other")

(* --------------------------- the file system --------------------------- *)
FileNames == {<<"a", "md">>, <<"a", "txt">>, <<"index", "md">>,
              <<"a", "b", "md">>}
DirNames == {<<"drafts">>}

FileEntries(contents) ==
    [name : FileNames, kind : {"file"}, content : contents]
DirEntries ==
    [name : DirNames, kind : {"dir"},
     content : {[fm |-> FALSE, meta |-> NoMeta, body |-> ""]}]

\* The listings of a directory: its entries, each name once, in the order
\* fs::read_dir returns them.
Listings(entries, n) ==
    UNION {{l \in [1..k -> entries] :
              \A a, b \in 1..k : a # b => l[a].name # l[b].name} : k \in 0..n}

\* SiteConfig, main.rs 23-30, as load_config deserializes it.
SiteConfig ==
    [site_title |-> "My Site", base_url |-> "http://example.com/",
     theme |-> "default", content_location |-> "content",
     output_location |-> "public"]

\* tera.render: a deterministic engine, the text is fixed by the template
\* and the context.
tera_render(template, context) ==
    <<[template |-> template, context |-> context]>>

\* main.rs 51-58: the metadata block is consumed, the body converted.
parse_markdown(content) == <<"html", content.body>>

\* main.rs 60-68
render_template(html_content, title, config) ==
    tera_render("template.html",
                [post_title |-> title, site_title |-> config.site_title,
                 content |-> html_content, base_url |-> config.base_url])

\* main.rs 105-111
render_home(pages, config) ==
    tera_render("index.html",
                [site_title |-> config.site_title, pages |-> pages,
                 base_url |-> config.base_url])

\* Files left in the output directory by an earlier version of the site.
StaleText == render_template(<<"html", "old">>, "Old", SiteConfig)
StaleDisk == (<<"a", "html">> :> StaleText) @@ (<<"old", "html">> :> StaleText)
NoDisk == [n \in {} |-> <<>>]

Put(d, path, text) ==
    [n \in DOMAIN d \cup {path} |-> IF n = path THEN text ELSE d[n]]

\* opening for append keeps what the file holds
file_open_append(d, path) ==
    IF path \in DOMAIN d THEN d ELSE Put(d, path, <<>>)

\* File::create: creates the file, or truncates the one that exists.
file_create(d, path) == Put(d, path, <<>>)

\* Write::write_all on the open file
write_all(d, path, text) == Put(d, path, d[path] \o text)

\* main.rs 70-73; outcome is what the file system does with the request.
write_output_file(d, path, text, outcome) ==
    IF outcome = "create_failed" THEN d
    ELSE IF outcome = "write_failed" THEN file_create(d, path)
    ELSE write_all(file_create(d, path), path, text)

WriteOutcomes == {"ok", "create_failed", "write_failed"}

\* listing every entry, directories included
read_dir_all(entries) == entries

\* main.rs 39-49: the entries that are regular files, in listing order.
read_dir(entries) == SelectSeq(entries, LAMBDA e : e.kind = "file")

\* the path is left as extraction set it
set_path_forgotten(page_info, output_file_path) == page_info

\* main.rs 95
set_path(page_info, output_file_path) ==
    [page_info EXCEPT !.path = output_file_path]

\* inserting at the front
push_front(pages, page_info) == <<page_info>> \o pages

\* main.rs 96
push(pages, page_info) == Append(pages, page_info)

\* carrying on with a default configuration
on_load_config_default(ok) == [pc |-> "create_dir_all", exit |-> "running"]

\* main.rs 150: `?` returns the error from main.
on_load_config(ok) ==
    IF ok THEN [pc |-> "create_dir_all", exit |-> "running"]
    ELSE [pc |-> "exited", exit |-> "err"]

\* main.rs 142-148: a failed initialisation ends the process with exit(1).
on_tera_new(ok) ==
    IF ok THEN [pc |-> "load_config", exit |-> "running"]
    ELSE [pc |-> "exited", exit |-> "exit1"]

(* ------------------------------- state --------------------------------- *)
VARIABLES
    contentDir,        \* the listing of the content directory
    outDirExists,      \* the output directory exists
    disk,              \* the files of the output directory: name -> text
    run,               \* number of the current run of the program
    prevDisk,          \* disk when the previous run ended
    prevOk,            \* the previous run ended with success
    startDisk,         \* disk when this run started
    startDirExists,    \* outDirExists when this run started
    pc,                \* position of the run in main / generate_site
    exit,              \* "running", "ok", "err", "exit1" or "panic"
    err,               \* the error the run ended with
    teraRes,           \* outcome of Tera::new
    configRes,         \* outcome of load_config
    fault,             \* the environment failed an I/O or render request
    files,             \* generate_site: files
    i,                 \* generate_site: index of file_path in files
    content,           \* generate_site: content
    page_info,         \* generate_site: page_info (<<>> when unset)
    rendered_content,  \* generate_site: rendered_content
    pages,             \* generate_site: pages
    reads,             \* indexes of the files this run asked to read
    writes,            \* the files this run wrote, in order
    homeCalls          \* the page lists generate_home_page was called with

siteVars == <<contentDir, outDirExists, disk, run, prevDisk, prevOk, startDisk,
              startDirExists>>
mainVars == <<pc, exit, err, teraRes, configRes, fault>>
loopVars == <<files, i, content, page_info, rendered_content, pages>>
logVars == <<reads, writes, homeCalls>>
vars == <<siteVars, mainVars, loopVars, logVars>>

NoContent == [fm |-> FALSE, meta |-> NoMeta, body |-> ""]

\* The state of a process that has just started.
Start ==
    /\ pc = "tera_new" /\ exit = "running" /\ err = "none"
    /\ teraRes = "unknown" /\ configRes = "unknown" /\ fault = FALSE
    /\ files = <<>> /\ i = 0 /\ content = NoContent /\ page_info = <<>>
    /\ rendered_content = <<>> /\ pages = <<>>
    /\ reads = <<>> /\ writes = <<>> /\ homeCalls = <<>>

InitSite(listings) ==
    /\ contentDir \in listings
    /\ outDirExists \in BOOLEAN
    /\ disk = IF outDirExists THEN StaleDisk ELSE NoDisk
    /\ run = 1 /\ prevDisk = disk /\ prevOk = FALSE
    /\ startDisk = disk /\ startDirExists = outDirExists
    /\ Start

\* Runs over directories of up to MaxFiles entries.
Init == InitSite(Listings(FileEntries(SomeContents) \cup DirEntries, MaxFiles))

\* Runs over one content file with any front matter, alone or listed after
\* a well-formed file of the same base name.
MetaListings ==
    LET good == [name |-> <<"a", "md">>, kind |-> "file",
                 content |-> GoodContent]
    IN UNION {{<<[name |-> <<"a", "txt">>, kind |-> "file", content |-> c]>>,
               <<good, [name |-> <<"a", "txt">>, kind |-> "file",
                        content |-> c]>>} : c \in AllContents}

InitMeta == InitSite(MetaListings)

(* ------------------------------- actions ------------------------------- *)
Leave(e, k) == pc' = "exited" /\ exit' = e /\ err' = k

\* main.rs 142-148
TeraNew ==
    /\ pc = "tera_new"
    /\ \E ok \in BOOLEAN :
        /\ teraRes' = IF ok THEN "ok" ELSE "fail"
        /\ pc' = on_tera_new(ok).pc
        /\ exit' = on_tera_new(ok).exit
        /\ err' = IF ok THEN err ELSE "TemplateInit"
    /\ UNCHANGED <<siteVars, configRes, fault, loopVars, logVars>>

\* main.rs 150-153
LoadConfig ==
    /\ pc = "load_config"
    /\ \E ok \in BOOLEAN :
        /\ configRes' = IF ok THEN "ok" ELSE "fail"
        /\ pc' = on_load_config(ok).pc
        /\ exit' = on_load_config(ok).exit
        /\ err' = IF ok THEN err ELSE "Config"
    /\ UNCHANGED <<siteVars, teraRes, fault, loopVars, logVars>>

\* main.rs 76
CreateDirAll ==
    /\ pc = "create_dir_all"
    /\ \/ /\ outDirExists' = TRUE
          /\ pc' = "read_dir"
          /\ UNCHANGED <<exit, err, fault>>
       \/ /\ ~outDirExists
          /\ Leave("err", "Io") /\ fault' = TRUE
          /\ UNCHANGED outDirExists
    /\ UNCHANGED <<contentDir, disk, run, prevDisk, prevOk, startDisk,
                   startDirExists, teraRes, configRes, loopVars, logVars>>

\* main.rs 78-81
ReadDir ==
    /\ pc = "read_dir"
    /\ \/ /\ files' = read_dir(contentDir)
          /\ i' = 1
          /\ pc' = IF files' = <<>> THEN "generate_home_page"
                   ELSE "read_to_string"
          /\ UNCHANGED <<exit, err, fault>>
       \/ /\ Leave("err", "Io") /\ fault' = TRUE
          /\ UNCHANGED <<files, i>>
    /\ UNCHANGED <<siteVars, teraRes, configRes, content, page_info,
                   rendered_content, pages, logVars>>

\* main.rs 82: reading a directory as a file is an error.
ReadToString ==
    /\ pc = "read_to_string"
    /\ reads' = Append(reads, i)
    /\ \/ /\ files[i].kind = "file"
          /\ content' = files[i].content
          /\ pc' = "collect_metadata"
          /\ UNCHANGED <<exit, err, fault>>
       \/ /\ Leave("err", "Io")
          /\ fault' = (files[i].kind = "file")
          /\ UNCHANGED content
    /\ UNCHANGED <<siteVars, teraRes, configRes, files, i, page_info,
                   rendered_content, pages, writes, homeCalls>>

\* main.rs 83
CollectMetadata ==
    /\ pc = "collect_metadata"
    /\ LET result == collect_metadata(content)
       IN IF result.tag = "Ok"
          THEN /\ page_info' = result.val
               /\ pc' = "render_template"
               /\ UNCHANGED <<exit, err>>
          ELSE /\ Leave("err", "Metadata")
               /\ UNCHANGED page_info
    /\ UNCHANGED <<siteVars, teraRes, configRes, fault, files, i, content,
                   rendered_content, pages, logVars>>

\* main.rs 84-85: unwrap() panics when the engine returns an error.
RenderTemplate ==
    /\ pc = "render_template"
    /\ \/ /\ rendered_content' =
                render_template(parse_markdown(content), page_info[1].title,
                                SiteConfig)
          /\ pc' = "write_output_file"
          /\ UNCHANGED <<exit, err, fault>>
       \/ /\ Leave("panic", "Render") /\ fault' = TRUE
          /\ UNCHANGED rendered_content
    /\ UNCHANGED <<siteVars, teraRes, configRes, files, i, content,
                   page_info, pages, logVars>>

\* main.rs 86-97
WritePage ==
    /\ pc = "write_output_file"
    /\ LET name == output_file_name(files[i].name)
       IN \E outcome \in WriteOutcomes :
            /\ disk' = write_output_file(disk, name, rendered_content, outcome)
            /\ IF outcome = "ok"
               THEN /\ writes' = Append(writes, [src |-> i, name |-> name])
                    /\ pages' = push(pages, set_path(page_info[1], name))
                    /\ page_info' = <<>>
                    /\ i' = i + 1
                    /\ pc' = IF i < Len(files) THEN "read_to_string"
                             ELSE "generate_home_page"
                    /\ UNCHANGED <<exit, err, fault>>
               ELSE /\ Leave("err", "Io") /\ fault' = TRUE
                    /\ UNCHANGED <<writes, pages, page_info, i>>
    /\ UNCHANGED <<contentDir, outDirExists, run, prevDisk, prevOk, startDisk,
                   startDirExists, teraRes, configRes, files, content,
                   rendered_content, reads, homeCalls>>

\* main.rs 99-114, and the return of main (155-157)
GenerateHomePage ==
    /\ pc = "generate_home_page"
    /\ homeCalls' = Append(homeCalls, pages)
    /\ \/ \E outcome \in WriteOutcomes :
            /\ disk' = write_output_file(disk, IndexHtml,
                                         render_home(pages, SiteConfig),
                                         outcome)
            /\ IF outcome = "ok"
               THEN /\ writes' = Append(writes, [src |-> 0, name |-> IndexHtml])
                    /\ Leave("ok", "none")
                    /\ UNCHANGED fault
               ELSE /\ Leave("err", "Io") /\ fault' = TRUE
                    /\ UNCHANGED writes
       \/ /\ Leave("panic", "Render") /\ fault' = TRUE
          /\ UNCHANGED <<disk, writes>>
    /\ UNCHANGED <<contentDir, outDirExists, run, prevDisk, prevOk, startDisk,
                   startDirExists, teraRes, configRes, loopVars, reads>>

\* The program is started again over the same content directory.
Rerun ==
    /\ pc = "exited" /\ run < MaxRuns
    /\ run' = run + 1
    /\ prevDisk' = disk /\ prevOk' = (exit = "ok")
    /\ startDisk' = disk /\ startDirExists' = outDirExists
    /\ pc' = "tera_new" /\ exit' = "running" /\ err' = "none"
    /\ teraRes' = "unknown" /\ configRes' = "unknown" /\ fault' = FALSE
    /\ files' = <<>> /\ i' = 0 /\ content' = NoContent /\ page_info' = <<>>
    /\ rendered_content' = <<>> /\ pages' = <<>>
    /\ reads' = <<>> /\ writes' = <<>> /\ homeCalls' = <<>>
    /\ UNCHANGED <<contentDir, outDirExists, disk>>

Next ==
    \/ TeraNew \/ LoadConfig \/ CreateDirAll \/ ReadDir \/ ReadToString
    \/ CollectMetadata \/ RenderTemplate \/ WritePage \/ GenerateHomePage
    \/ Rerun

Spec == Init /\ [][Next]_vars
SpecMeta == InitMeta /\ [][Next]_vars

TypeOK ==
    /\ pc \in {"tera_new", "load_config", "create_dir_all", "read_dir",
               "read_to_string", "collect_metadata", "render_template",
               "write_output_file", "generate_home_page", "exited"}
    /\ exit \in {"running", "ok", "err", "exit1", "panic"}
    /\ (pc = "exited") = (exit # "running")
    /\ run \in 1..MaxRuns

(* ------------------------------ properties ----------------------------- *)
Range(q) == {q[k] : k \in DOMAIN q}
SixFields == {"title", "description", "tags", "similar_posts", "date",
              "favorite_numbers"}

\* The regular files of the content directory, in listing order.
Listed == SelectSeq(contentDir, LAMBDA e : e.kind = "file")

\* The run failed while processing the file at index i.
FailedInLoop ==
    pc = "exited" /\ exit \in {"err", "panic"} /\ i \in 1..Len(files)

\* C1: every PageInfo passed to generate_home_page has a non-empty path, and
\* that path names a file this run wrote into the output directory.
C1_PathsNameWrittenFiles ==
    \A c \in DOMAIN homeCalls : \A k \in DOMAIN homeCalls[c] :
        LET p == homeCalls[c][k].path
        IN /\ p # <<>>
           /\ \E w \in DOMAIN writes : writes[w].src # 0 /\ writes[w].name = p
           /\ p \in DOMAIN disk

C1_Witness ==
    Len(homeCalls) = 1 /\ Len(homeCalls[1]) = 2 /\ exit = "ok"

\* C2: after a successful run every input file has a page file of its own:
\* the run wrote one distinct page per input file plus index.html, no page
\* shared with another input file or with the index.
C2_OnePagePerInput ==
    exit = "ok" =>
        /\ Len(pages) = Len(Listed)
        /\ \A a, b \in DOMAIN pages : a # b => pages[a].path # pages[b].path
        /\ \A a \in DOMAIN pages : pages[a].path # IndexHtml
        /\ Cardinality({w.name : w \in Range(writes)}) = Len(Listed) + 1

\* C3: when a stage fails for the k-th file the run stops there: no later
\* file is read or written, generate_home_page is not called, index.html is
\* not written in this run, and the pages written for the files before k
\* are on disk as written.
C3_AbortKeepsEarlierPages ==
    FailedInLoop =>
        /\ reads = [k \in 1..i |-> k]
        /\ \A w \in DOMAIN writes : writes[w].src \in 1..(i - 1)
        /\ homeCalls = <<>>
        /\ \A w \in DOMAIN writes : writes[w].name # IndexHtml
        /\ \A k \in 1..(i - 1) :
             LET name == output_file_name(files[k].name)
             IN /\ name \in DOMAIN disk
                /\ disk[name] =
                     render_template(parse_markdown(files[k].content),
                                     files[k].content.meta.title.val[1],
                                     SiteConfig)

\* The six author-supplied fields are present with the right shapes.
SixWellFormed(c) ==
    c.fm /\ \A f \in SixFields : c.meta[f].kind = Expected(f)

\* collect_metadata has been applied to the file at index i.
Extracted ==
    /\ i \in 1..Len(files) /\ Len(reads) = i
    /\ pc \notin {"read_to_string", "collect_metadata"}
    /\ ~(pc = "exited" /\ err = "Io" /\ page_info = <<>>)

\* C4: for a file whose block supplies the six fields with the right
\* shapes, with or without a path entry, extraction succeeds with a record
\* whose six fields are the source values and whose path is empty.
C4_WellFormedExtracts ==
    (Extracted /\ SixWellFormed(files[i].content)) =>
        /\ err # "Metadata"
        /\ pc = "render_template" =>
             LET m == files[i].content.meta
             IN page_info =
                  <<[title |-> m.title.val[1],
                     description |-> m.description.val[1],
                     tags |-> m.tags.val,
                     similar_posts |-> m.similar_posts.val,
                     date |-> m.date.val[1],
                     favorite_numbers |-> m.favorite_numbers.val,
                     path |-> <<>>]>>

\* C5: for a file whose block is missing, lacks one of the six fields or
\* has one of the wrong shape, extraction fails with an error value and
\* yields no record: the run never gets past the file, writes no page for
\* it and collects no summary for it.
C5_MalformedFails ==
    \A k \in DOMAIN files :
        ~SixWellFormed(files[k].content) =>
            /\ i <= k
            /\ \A w \in DOMAIN writes : writes[w].src # k
            /\ Len(pages) < k
            /\ (i = k /\ Extracted) =>
                 /\ pc = "exited" /\ exit = "err" /\ err = "Metadata"
                 /\ page_info = <<>>

C5_Witness ==
    /\ Len(files) = 2 /\ i = 2 /\ Extracted
    /\ files[2].content.fm /\ files[2].content.meta.tags.kind = "scalar"
    /\ err = "Metadata"

\* C6: a failure of the template engine while rendering a page or the index
\* ends the run with an error value returned to the caller, not with an
\* abnormal termination.
C6_RenderErrorReturned == err = "Render" => exit = "err"

\* C7: when Tera::new or load_config fails the process ends with a failure
\* exit before generate_site starts: the output directory is neither
\* created nor modified, nothing is read and nothing is written.
C7_InitFailureTouchesNothing ==
    (teraRes = "fail" \/ configRes = "fail") =>
        /\ pc = "exited" /\ exit \in {"exit1", "err"}
        /\ outDirExists = startDirExists /\ disk = startDisk
        /\ files = <<>> /\ reads = <<>> /\ writes = <<>> /\ homeCalls = <<>>

C7_Witness ==
    configRes = "fail" /\ teraRes = "ok" /\ ~outDirExists /\ Listed # <<>>

\* The content directory holds no regular file.
NoRegularFiles == Listed = <<>>

\* C8: over a content directory without regular files a run that meets no
\* failure of its environment succeeds, has the output directory created,
\* writes index.html and nothing else, and renders the index with an empty
\* page list.
C8_EmptySiteWritesOnlyIndex ==
    (NoRegularFiles /\ pc = "exited" /\ teraRes = "ok" /\ configRes = "ok"
        /\ ~fault) =>
        /\ exit = "ok" /\ outDirExists
        /\ reads = <<>>
        /\ writes = <<[src |-> 0, name |-> IndexHtml]>>
        /\ homeCalls = << <<>> >>
        /\ disk = Put(startDisk, IndexHtml, render_home(<<>>, SiteConfig))

C8_Witness ==
    /\ NoRegularFiles /\ contentDir # <<>> /\ exit = "ok"
    /\ ~startDirExists /\ outDirExists

\* C9: a second successful run right after a successful run over the same
\* content directory leaves the output directory with the same files and
\* the same texts, index.html included; every file the run wrote holds
\* exactly one rendered text, the one written last.
C9_SecondRunSameOutput ==
    (run >= 2 /\ prevOk /\ exit = "ok") =>
        /\ disk = prevDisk
        /\ \A w \in DOMAIN writes : Len(disk[writes[w].name]) = 1
        /\ disk[IndexHtml] = render_home(pages, SiteConfig)

C9_Witness ==
    run = 2 /\ prevOk /\ exit = "ok" /\ Len(files) = 2 /\ startDirExists

\* C10: generate_home_page is called at most once in a run, exactly once in
\* a successful one, and only when every listed file has been read and its
\* page written; its page list has one PageInfo per listed file, in listing
\* order.
C10_IndexAfterAllPagesInOrder ==
    /\ Len(homeCalls) <= 1
    /\ exit = "ok" => Len(homeCalls) = 1
    /\ \A c \in DOMAIN homeCalls :
        /\ reads = [k \in 1..Len(Listed) |-> k]
        /\ Len(homeCalls[c]) = Len(Listed)
        /\ \A k \in DOMAIN Listed :
            /\ writes[k].src = k
            /\ homeCalls[c][k].path = writes[k].name
            /\ homeCalls[c][k].title = Listed[k].content.meta.title.val[1]
        /\ \A w \in DOMAIN writes :
             w > Len(Listed) => writes[w] = [src |-> 0, name |-> IndexHtml]

C10_Witness ==
    /\ Len(homeCalls) = 1 /\ Len(homeCalls[1]) = 2
    /\ homeCalls[1][1].title # homeCalls[1][2].title

====
